---- MODULE Spec2Model ----
(***************************************************************************)
(* Model of matisse/theme/box.py: the Box class (get, caption_txt,         *)
(* put_caption, to_html) and the module function parse.                    *)
(*                                                                         *)
(* A string is a sequence of tokens.  A token is an indivisible piece of   *)
(* text: the keywords "$box", "$endbox", "$style", "$caption", "$content", *)
(* the brackets, the blank " ", the backslash group reference "\\1" and    *)
(* a few words.  The regular expressions of box.py are evaluated on token  *)
(* sequences with the backtracking order of Python's re module.            *)
(***************************************************************************)
EXTENDS Integers, Sequences, FiniteSets, TLC

VARIABLES source,         \* parse: the argument `source`
          parsed_source,  \* parse: the working copy that is returned
          matches,        \* parse: what re.finditer has still to yield
          match,          \* parse: the current match of the for loop
          box,            \* parse: the Box of the current iteration
          html,           \* parse: the value of box.to_html()
          err,            \* the exception that ended parse, "" if none
          pc              \* position in parse

vars == <<source, parsed_source, matches, match, box, html, err, pc>>

-----------------------------------------------------------------------------
(* Bounds of the model *)

\* number of pieces (texts, stray delimiters, boxes) a document is made of
MaxPieces == 3
\* number of blanks put on each side of a field's text
MaxPad == 1

-----------------------------------------------------------------------------
(* Python values *)

\* None, and a str value; Truthy is Python's truth test of `if x:`
None == [set |-> FALSE, s |-> <<>>]
Str(s) == [set |-> TRUE, s |-> s]
Truthy(x) == x.set /\ x.s # <<>>

\* str.strip(): blanks removed at both ends
RECURSIVE LStrip(_)
LStrip(s) == IF s # <<>> /\ Head(s) = " " THEN LStrip(Tail(s)) ELSE s
RECURSIVE RStrip(_)
RStrip(s) ==
  IF s # <<>> /\ s[Len(s)] = " " THEN RStrip(SubSeq(s, 1, Len(s) - 1)) ELSE s
Strip(s) == RStrip(LStrip(s))

\* str.lower(), token by token
LowerTok(t) ==
  CASE t = "None" -> "none"
    [] t = "NONE" -> "none"
    [] t = "Figure" -> "figure"
    [] OTHER -> t
Lower(s) == [i \in 1..Len(s) |-> LowerTok(s[i])]

\* str(self.number)
NumStr(n) ==
  CASE n = 0 -> "0" [] n = 1 -> "1" [] n = 2 -> "2" [] n = 3 -> "3"
    [] n = 4 -> "4" [] n = 5 -> "5" [] n = 6 -> "6" [] OTHER -> "n"

\* position of the first token t of s at or after position p, 0 if none
RECURSIVE IndexFrom(_, _, _)
IndexFrom(s, t, p) ==
  IF p > Len(s) THEN 0
  ELSE IF s[p] = t THEN p
  ELSE IndexFrom(s, t, p + 1)

Contains(s, t) == IndexFrom(s, t, 1) # 0

-----------------------------------------------------------------------------
(* The regular expressions *)

NoMatch == [ok |-> FALSE]

\* (variant: a "$box" with no "$endbox" after it matches up to the end of
\* the text, as \$box(?P<box>.*?)(\$endbox|$) would)
rebox_search_to_end(s, p) ==
  LET i == IndexFrom(s, "$box", p) IN
  IF i = 0 THEN NoMatch
  ELSE LET j == IndexFrom(s, "$endbox", i + 1) IN
       IF j = 0
       THEN [ok |-> TRUE, start |-> i, end |-> Len(s),
             group |-> SubSeq(s, i + 1, Len(s))]
       ELSE [ok |-> TRUE, start |-> i, end |-> j,
             group |-> SubSeq(s, i + 1, j - 1)]

\* __rebox__ = \$box(?P<box>.*?)\$endbox, searched from position p:
\* the leftmost "$box" that has an "$endbox" after it, up to the first such
\* "$endbox".  start/end are the span, group the text of (?P<box>...).
rebox_search(s, p) ==
  LET i == IndexFrom(s, "$box", p) IN
  IF i = 0 THEN NoMatch
  ELSE LET j == IndexFrom(s, "$endbox", i + 1) IN
       IF j = 0 THEN NoMatch
       ELSE [ok |-> TRUE, start |-> i, end |-> j,
             group |-> SubSeq(s, i + 1, j - 1)]

\* re.finditer(__rebox__, s): the non-overlapping matches, left to right
RECURSIVE rebox_finditer_from(_, _)
rebox_finditer_from(s, p) ==
  LET m == rebox_search(s, p) IN
  IF m.ok THEN <<m>> \o rebox_finditer_from(s, m.end + 1) ELSE <<>>
rebox_finditer(s) == rebox_finditer_from(s, 1)

\* __restl__ = \$style\[(?P<style>.*?)\]: the leftmost "$style" directly
\* followed by "[" with a "]" after it
RECURSIVE restl_search_from(_, _)
restl_search_from(s, p) ==
  LET i == IndexFrom(s, "$style", p) IN
  IF i = 0 THEN NoMatch
  ELSE LET j == IF i < Len(s) /\ s[i + 1] = "[" THEN IndexFrom(s, "]", i + 2)
                 ELSE 0 IN
       IF j = 0 THEN restl_search_from(s, i + 1)
       ELSE [ok |-> TRUE, style |-> Str(SubSeq(s, i + 2, j - 1))]
restl_search(s) == restl_search_from(s, 1)

\* The qualifier groups of __rectn__ and __recap__:
\*   1 (\((?P<type>.*?)\))*   2 (\[(?P<options>.*?)\])*   3 \{(?P<body>.*?)\}
\* Group 3 is starred in __recap__ (starred3) and required once in __rectn__.
Open == <<"(", "[", "{">>
Close == <<")", "]", "}">>

\* ReFields(s, p, g, caps, starred3): match groups g..3 at position p, caps
\* being the captures so far.  ReGroup tries one more repetition of group g,
\* opened at p, closing it at the first close token at or after q that lets
\* the rest of the pattern match (.*? is lazy, the star is greedy); with no
\* such repetition the star matches empty and the next group is tried at p.
RECURSIVE ReFields(_, _, _, _, _), ReGroup(_, _, _, _, _, _)
ReFields(s, p, g, caps, starred3) ==
  IF g > 3 THEN [ok |-> TRUE, caps |-> caps]
  ELSE LET r == ReGroup(s, p, p + 1, g, caps, starred3) IN
       IF g = 3 /\ ~starred3 THEN r
       ELSE IF r.ok THEN r
       ELSE ReFields(s, p, g + 1, caps, starred3)
ReGroup(s, p, q, g, caps, starred3) ==
  IF p > Len(s) \/ q > Len(s) THEN NoMatch
  ELSE IF s[p] # Open[g] THEN NoMatch
  ELSE IF s[q] = Close[g]
  THEN LET caps2 == [caps EXCEPT ![g] = Str(SubSeq(s, p + 1, q - 1))]
           rest == ReFields(s, q + 1, IF g = 3 /\ ~starred3 THEN 4 ELSE g,
                            caps2, starred3)
       IN IF rest.ok THEN rest ELSE ReGroup(s, p, q + 1, g, caps, starred3)
  ELSE ReGroup(s, p, q + 1, g, caps, starred3)

\* re.search of a keyword followed by the qualifier groups: the leftmost
\* position of the keyword at which the groups match
RECURSIVE fields_search_from(_, _, _, _)
fields_search_from(s, kw, starred3, p) ==
  LET i == IndexFrom(s, kw, p) IN
  IF i = 0 THEN NoMatch
  ELSE LET r == ReFields(s, i + 1, 1, <<None, None, None>>, starred3) IN
       IF r.ok THEN r ELSE fields_search_from(s, kw, starred3, i + 1)

\* __rectn__ = \$content(\((?P<ctn_type>.*?)\))*(\[(?P<ctn_options>.*?)\])*
\*             \{(?P<ctn>.*?)\}
rectn_search(s) == fields_search_from(s, "$content", FALSE, 1)

\* __recap__ = \$caption(\((?P<cap_type>.*?)\))*(\[(?P<cap_options>.*?)\])*
\*             (\{(?P<cap>.*?)\})*
recap_search(s) == fields_search_from(s, "$caption", TRUE, 1)

-----------------------------------------------------------------------------
(* class Box *)

\* Box.__init__(ctn_type): every field None but number and ctn_type
Box_init(ctn_type) ==
  [number |-> 0, ctn_type |-> Str(<<ctn_type>>), style |-> None,
   ctn_options |-> None, cap_options |-> None, cap_type |-> None,
   ctn |-> None, cap |-> None]

\* Box.__get_style
get_style(b, src) ==
  LET m == restl_search(src) IN
  IF m.ok /\ Truthy(m.style)
  THEN [b EXCEPT !.style = Str(Strip(m.style.s))]
  ELSE b

\* (variant: the TYPE 'none' is stored like any other)
cap_type_kept(cap_type) == Str(Strip(cap_type))
\* the caption type stored for a captured, non-empty TYPE: the test against
\* 'none' is made on the text as captured, lower-cased, before any strip
cap_type_of(cap_type) ==
  IF Lower(cap_type) = <<"none">> THEN None ELSE Str(Strip(cap_type))

\* Box.__get_caption
get_caption(b, src) ==
  LET m == recap_search(src) IN
  IF ~m.ok THEN b
  ELSE LET cap_type == m.caps[1]
           cap_options == m.caps[2]
           cap == m.caps[3]
       IN [b EXCEPT
             !.cap_type = IF Truthy(cap_type) THEN cap_type_of(cap_type.s)
                          ELSE @,
             !.cap_options = IF Truthy(cap_options)
                             THEN Str(Strip(cap_options.s)) ELSE @,
             !.cap = IF Truthy(cap) THEN Str(Strip(cap.s)) ELSE cap]

\* Box.__get_content
get_content(b, src) ==
  LET m == rectn_search(src) IN
  IF ~m.ok THEN b
  ELSE LET ctn_type == m.caps[1]
           ctn_options == m.caps[2]
           ctn == m.caps[3]
       IN [b EXCEPT
             !.ctn_type = IF Truthy(ctn_type) THEN Str(Strip(ctn_type.s))
                          ELSE @,
             !.ctn_options = IF Truthy(ctn_options)
                             THEN Str(Strip(ctn_options.s)) ELSE @,
             !.ctn = IF Truthy(ctn) THEN Str(Strip(ctn.s)) ELSE ctn]

\* Box.get: style, then caption, then content, each on the whole source
get(b, src) == get_content(get_caption(get_style(b, src), src), src)

\* __cap_type__: the label of a content type
cap_type_label(ctn_type) ==
  CASE ctn_type = <<"figure">> -> <<"Figure">>
    [] ctn_type = <<"table">> -> <<"Table">>
    [] ctn_type = <<"note">> -> <<"Note">>
    [] OTHER -> <<>>

\* (variant: without cap_type the label of the content type is used)
caption_txt_default_label(b) ==
  IF Truthy(b.cap_type) /\ Truthy(b.cap)
  THEN [ok |-> TRUE,
        txt |-> b.cap_type.s \o <<" ", NumStr(b.number), ":", " ">> \o b.cap.s]
  ELSE IF Truthy(b.cap_type) THEN [ok |-> TRUE, txt |-> b.cap_type.s]
  ELSE IF Truthy(b.cap) /\ cap_type_label(b.ctn_type.s) # <<>>
  THEN [ok |-> TRUE,
        txt |-> cap_type_label(b.ctn_type.s)
                \o <<" ", NumStr(b.number), ":", " ">> \o b.cap.s]
  ELSE IF Truthy(b.cap) THEN [ok |-> TRUE, txt |-> b.cap.s]
  ELSE [ok |-> FALSE, err |-> "UnboundLocalError"]
\* Box.caption_txt; with neither cap_type nor cap the local txt is unbound and
\* `return txt` raises
caption_txt(b) ==
  IF Truthy(b.cap_type) /\ Truthy(b.cap)
  THEN [ok |-> TRUE,
        txt |-> b.cap_type.s \o <<" ", NumStr(b.number), ":", " ">> \o b.cap.s]
  ELSE IF Truthy(b.cap_type) THEN [ok |-> TRUE, txt |-> b.cap_type.s]
  ELSE IF Truthy(b.cap) THEN [ok |-> TRUE, txt |-> b.cap.s]
  ELSE [ok |-> FALSE, err |-> "UnboundLocalError"]

\* yattag: Doc.text escapes the text of a node ("<" becomes "&lt;") and raises
\* TypeError on a value that is not a str or a number, None included; an
\* attribute value is escaped alike
html_escape(s) == [i \in 1..Len(s) |-> IF s[i] = "<" THEN "&lt;" ELSE s[i]]
attr_escape(s) == html_escape(s)

\* the markup of yattag's tags
BoxOpen == "<div markdown=\"1\" class=\"box\""
ContentOpen == "<div class=\"box content\""
CaptionOpen == "<div class=\"box caption\""
DivClose == "</div>"
\* doc.attr(style=v): the attribute is written when v is truthy
style_attr(v) ==
  IF Truthy(v) THEN <<" style=\"">> \o attr_escape(v.s) \o <<"\"">> ELSE <<>>

\* (variant: the guard looks at cap alone)
caption_present_cap_only(b) == Truthy(b.cap)
\* the guard of Box.put_caption
caption_present(b) == Truthy(b.cap) \/ Truthy(b.cap_type)

\* Box.put_caption: the caption element, nothing without cap and cap_type
put_caption(b) ==
  IF caption_present(b)
  THEN LET t == caption_txt(b) IN
       IF t.ok
       THEN [ok |-> TRUE,
             value |-> <<CaptionOpen>> \o style_attr(b.cap_options) \o <<">">>
                       \o html_escape(t.txt) \o <<DivClose>>]
       ELSE t
  ELSE [ok |-> TRUE, value |-> <<>>]

\* Box.to_html: the box element holding the content element and the caption;
\* doc.text(self.ctn) raises when ctn is None
to_html(b) ==
  IF ~b.ctn.set THEN [ok |-> FALSE, err |-> "TypeError"]
  ELSE LET c == put_caption(b) IN
       IF ~c.ok THEN c
       ELSE [ok |-> TRUE,
             value |-> <<BoxOpen>> \o style_attr(b.style) \o <<">">>
                       \o <<ContentOpen>> \o style_attr(b.ctn_options)
                       \o <<">">> \o html_escape(b.ctn.s) \o <<DivClose>>
                       \o c.value \o <<DivClose>>]

-----------------------------------------------------------------------------
(* parse *)

\* the replacement string of re.sub is a template: "\\1" in it stands for
\* group 1 of the span being replaced
RECURSIVE expand_template(_, _)
expand_template(repl, group) ==
  IF repl = <<>> THEN <<>>
  ELSE (IF Head(repl) = "\\1" THEN group ELSE <<Head(repl)>>)
       \o expand_template(Tail(repl), group)

\* re.sub(__rebox__, repl, s, 1): the first span of s replaced
re_sub(s, repl) ==
  LET m == rebox_search(s, 1) IN
  IF ~m.ok THEN s
  ELSE SubSeq(s, 1, m.start - 1) \o expand_template(repl, m.group)
       \o SubSeq(s, m.end + 1, Len(s))

\* for match in re.finditer(__rebox__, parsed_source): box = Box()
ForNext ==
  /\ pc = "for"
  /\ matches # <<>>
  /\ match' = Head(matches)
  /\ matches' = Tail(matches)
  /\ box' = Box_init("box")
  /\ pc' = "get"
  /\ UNCHANGED <<source, parsed_source, html, err>>

\* box.get(source=match.group('box'))
BoxGet ==
  /\ pc = "get"
  /\ box' = get(box, match.group)
  /\ pc' = "to_html"
  /\ UNCHANGED <<source, parsed_source, matches, match, html, err>>

\* box.to_html() returns
ToHtml ==
  /\ pc = "to_html"
  /\ to_html(box).ok
  /\ html' = to_html(box).value
  /\ pc' = "sub"
  /\ UNCHANGED <<source, parsed_source, matches, match, box, err>>

\* box.to_html() raises, and parse with it
ToHtmlRaise ==
  /\ pc = "to_html"
  /\ ~to_html(box).ok
  /\ err' = to_html(box).err
  /\ pc' = "raised"
  /\ UNCHANGED <<source, parsed_source, matches, match, box, html>>

\* parsed_source = re.sub(__rebox__, <html>, parsed_source, 1)
ReSub ==
  /\ pc = "sub"
  /\ parsed_source' = re_sub(parsed_source, html)
  /\ pc' = "for"
  /\ UNCHANGED <<source, matches, match, box, html, err>>

\* the loop is over: return parsed_source
Return ==
  /\ pc = "for"
  /\ matches = <<>>
  /\ pc' = "done"
  /\ UNCHANGED <<source, parsed_source, matches, match, box, html, err>>

Next == ForNext \/ BoxGet \/ ToHtml \/ ToHtmlRaise \/ ReSub \/ Return

-----------------------------------------------------------------------------
(* The documents parse is called with *)

Blanks(n) == [i \in 1..n |-> " "]
\* a text with up to MaxPad blanks on each side
Pads(t) == {Blanks(n) \o t \o Blanks(n) : n \in 0..MaxPad}
Wrap(body) == <<"$box">> \o body \o <<"$endbox">>

\* bodies of the boxes of a document: a plain box, a captioned figure, a
\* content that is the text $box, a content that is a group reference, a box
\* without content, a content whose brace is never closed
DocBodies ==
  { <<"$content", "{", "b", "}">>,
    <<"$caption", "(", "Figure", ")", "{", "c", "}",
      "$content", "(", "figure", ")", "{", "x", "}">>,
    <<"$content", "{", "$box", "}">>,
    <<"$content", "{", "\\1", "}">>,
    <<"$caption", "{", "c", "}">>,
    <<"$content", "{", "b">> }

\* the pieces of a document: a text, a stray delimiter, a content field
\* outside any box, a box
Pieces ==
  {<<"a">>, <<"$box">>, <<"$endbox">>, <<"$content", "{", "b", "}">>}
  \cup {Wrap(b) : b \in DocBodies}

RECURSIVE DocsOf(_)
DocsOf(n) ==
  IF n = 0 THEN {<<>>}
  ELSE LET d == DocsOf(n - 1) IN d \cup {x \o p : x \in d, p \in Pieces}
Docs == DocsOf(MaxPieces)

\* bodies of a single box, field by field: each qualifier absent or present,
\* its text padded with blanks, empty or blank
Qualified(open, texts, close) ==
  {<<>>} \cup {<<open>> \o t \o <<close>> : t \in texts}
CapTypes ==
  UNION {Pads(<<w>>) : w \in {"none", "None", "NONE", "Figure"}} \cup {<<>>, <<" ">>}
CapTexts == Pads(<<"t">>) \cup {<<>>, <<" ">>, <<"<">>}
CaptionParts ==
  {<<>>} \cup
  {<<"$caption">> \o ty \o op \o bd :
     ty \in Qualified("(", CapTypes, ")"),
     op \in Qualified("[", {<<"o">>}, "]"),
     bd \in Qualified("{", CapTexts, "}")}
CtnTypes == {<<"figure">>, <<"table">>, <<"note">>}
CtnTexts == Pads(<<"y">>) \cup {<<>>, <<"$box">>}
ContentParts ==
  {<<>>} \cup
  {<<"$content">> \o ty \o op \o bd :
     ty \in Qualified("(", CtnTypes, ")"),
     op \in Qualified("[", {<<"p">>}, "]"),
     bd \in {<<"{">> \o t \o <<"}">> : t \in CtnTexts} \cup {<<"{", "y">>}}
StyleParts ==
  {<<>>} \cup
  {<<"$style", "[">> \o t \o <<"]">> : t \in Pads(<<"s">>) \cup {<<" ">>}}
Bodies ==
  {st \o cp \o ct : st \in StyleParts, cp \in CaptionParts,
                    ct \in ContentParts}

InitWith(doc) ==
  /\ source = doc
  /\ parsed_source = doc
  /\ matches = rebox_finditer(doc)
  /\ match = NoMatch
  /\ box = Box_init("box")
  /\ html = <<>>
  /\ err = ""
  /\ pc = "for"

\* parse called with a document of several pieces
Init == \E doc \in Docs : InitWith(doc)
Spec == Init /\ [][Next]_vars

\* parse called with a document that is one box
InitBox == \E body \in Bodies : InitWith(Wrap(body))
SpecBox == InitBox /\ [][Next]_vars

-----------------------------------------------------------------------------
(* Properties *)

\* the caption element of a fragment, from its opening tag to its closing
\* tag, <<>> if the fragment has none
CaptionElement(h) ==
  LET i == IndexFrom(h, CaptionOpen, 1) IN
  IF i = 0 THEN <<>> ELSE SubSeq(h, i, IndexFrom(h, DivClose, i))

\* the fragment of the box parsed from `body`, numbered n
Fragment(body, n) ==
  to_html([get(Box_init("box"), body) EXCEPT !.number = n]).value

FigureBody(c, x) ==
  <<"$caption", "(", "Figure", ")", "{", c, "}",
    "$content", "(", "figure", ")", "{", x, "}">>

\* C1: a document of two sequential figure boxes, each with a caption type
\* and a caption body, comes back with the first caption numbered 1 and the
\* second numbered 2.
C1_ConsecutiveNumbers ==
  (pc = "done"
   /\ source = Wrap(FigureBody("c", "x")) \o Wrap(FigureBody("c", "x")))
  => parsed_source = Fragment(FigureBody("c", "x"), 1)
                     \o Fragment(FigureBody("c", "x"), 2)

\* C2: the string parse returns contains no span $box ... $endbox.
C2_NoSpanRemains == pc = "done" => ~rebox_search(parsed_source, 1).ok

\* the document with each span of `ms` replaced by the fragment of its box
RECURSIVE Spliced(_, _, _)
Spliced(s, ms, p) ==
  IF ms = <<>> THEN SubSeq(s, p, Len(s))
  ELSE SubSeq(s, p, Head(ms).start - 1) \o Fragment(Head(ms).group, 0)
       \o Spliced(s, Tail(ms), Head(ms).end + 1)

\* C3: parse changes only the spans of the original document: what it
\* returns is the original with each span replaced by exactly the fragment
\* to_html gives for it, every other token unchanged and in place.
C3_OnlySpansChange ==
  pc = "done" => parsed_source = Spliced(source, rebox_finditer(source), 1)

\* C4: at every iteration the span replaced in the working copy is the span
\* of the original the current Box was parsed from: it starts the same rest
\* of the document.
C4_ReplacesItsOwnSpan ==
  pc = "sub" =>
    LET m == rebox_search(parsed_source, 1) IN
    /\ m.ok
    /\ SubSeq(parsed_source, m.start, Len(parsed_source))
       = SubSeq(source, match.start, Len(source))

\* a $box with no $endbox after it
UnterminatedBox(s) ==
  \E i \in 1..Len(s) : s[i] = "$box" /\ IndexFrom(s, "$endbox", i + 1) = 0
\* a $content{ with no closing brace after it
UnterminatedContent(s) ==
  \E i \in 1..(Len(s) - 1) :
    s[i] = "$content" /\ s[i + 1] = "{" /\ IndexFrom(s, "}", i + 2) = 0
\* what follows the last $endbox of s
RECURSIVE AfterLastEndbox(_)
AfterLastEndbox(s) ==
  LET j == IndexFrom(s, "$endbox", 1) IN
  IF j = 0 THEN s ELSE AfterLastEndbox(SubSeq(s, j + 1, Len(s)))
EndsWith(s, t) ==
  Len(t) <= Len(s) /\ SubSeq(s, Len(s) - Len(t) + 1, Len(s)) = t

C6_NoContentRenders ==
  (match.ok /\ ~Contains(match.group, "$content")) =>
    /\ pc # "raised"
    /\ pc = "to_html" => ~box.ctn.set
    /\ pc = "sub" =>
         \E i \in 1..(Len(html) - 2) :
           html[i] = ContentOpen /\ html[i + 1] = ">" /\ html[i + 2] = DivClose

NoneForm(n, T, Y) ==
  <<"$caption", "(", n, ")", "{">> \o T \o <<"}", "$content", "{">> \o Y
  \o <<"}">>

BareCaption(body) ==
  LET i == IndexFrom(body, "$caption", 1) IN
  /\ i # 0
  /\ i = Len(body) \/ body[i + 1] \notin {"(", "[", "{"}

\* C8: a rendered fragment has a caption element exactly when cap or
\* cap_type is non-empty; a bare $caption and a body without $caption give
\* no caption element; caption_txt is never reached with both empty.
C8_CaptionIff ==
  /\ pc = "sub" =>
       /\ Contains(html, CaptionOpen)
          <=> (Truthy(box.cap) \/ Truthy(box.cap_type))
       /\ (BareCaption(match.group) \/ ~Contains(match.group, "$caption"))
          => ~Contains(html, CaptionOpen)
  /\ err # "UnboundLocalError"

\* C8 witness: the fragment of a box with a bare $caption is rendered
\* without caption element.
C8_Witness ==
  /\ pc = "sub"
  /\ BareCaption(match.group)
  /\ ~Contains(html, CaptionOpen)

\* a Box with a caption body and no caption type whose fragment is rendered
CaptionBodyOnly == pc = "sub" /\ Truthy(box.cap) /\ ~Truthy(box.cap_type)

\* C9 as stated: with a caption body, no caption type and content type
\* figure, table or note, the caption text is "{label} {number}: {cap}",
\* label looked up from the content type.
C9_DefaultLabel ==
  (CaptionBodyOnly /\ box.ctn_type.s \in CtnTypes) =>
    CaptionElement(html)
    = <<CaptionOpen>> \o style_attr(box.cap_options) \o <<">">>
      \o html_escape(cap_type_label(box.ctn_type.s)
                     \o <<" ", NumStr(box.number), ":", " ">> \o box.cap.s)
      \o <<DivClose>>

\* C9 as amended: with a caption body and no caption type the caption text
\* is the bare caption body, whatever the content type; no label is looked
\* up and the Box keeps its caption type empty.
C9_BareCaptionBody ==
  CaptionBodyOnly =>
    CaptionElement(html)
    = <<CaptionOpen>> \o style_attr(box.cap_options) \o <<">">>
      \o html_escape(box.cap.s) \o <<DivClose>>

\* C9 witness: the fragment of a figure box with a caption body and no
\* caption type is rendered.
C9_Witness == CaptionBodyOnly /\ box.ctn_type.s = <<"figure">>

Stripped(x) == x.set => Strip(x.s) = x.s

\* C10: after Box.get every field is stored without blanks at its ends and
\* cap_type is never a string equal to "none" whatever its letter case.
C10_NoneNeverStored ==
  pc = "to_html" =>
    /\ Stripped(box.style) /\ Stripped(box.cap_type)
    /\ Stripped(box.cap_options) /\ Stripped(box.cap)
    /\ Stripped(box.ctn_type) /\ Stripped(box.ctn_options)
    /\ Stripped(box.ctn)
    /\ box.cap_type.set => Lower(box.cap_type.s) # <<"none">>

====
